---- MODULE Spec2Model ----
(***************************************************************************)
(* Model of nextcloudappstore/certificate/validator.py:                    *)
(* CertificateValidator (validate_signature, validate_certificate, get_cn, *)
(* validate_app_id, _to_cert) over CertificateConfiguration and the Django *)
(* settings it reads.  The library calls the validator makes (pem.parse,   *)
(* load_certificate, load_crl, b64decode, verify, X509Store,               *)
(* X509StoreContext.verify_certificate) are modelled by what they do on a  *)
(* small universe of PEM texts, certificates, CRLs and signatures.         *)
(***************************************************************************)
EXTENDS Integers, Sequences, FiniteSets, TLC

VARIABLES digest, master_cns, startup, now, th, memo

vars == <<digest, master_cns, startup, now, th, memo>>

(***************************************************************************)
(* Bounds of the model.                                                    *)
(***************************************************************************)
\* longest base64 signature text tried, in characters
MaxSigLen == 4
\* the clock runs from 0 to MaxTime
MaxTime == 1
\* longest app id tried, in characters
MaxIdLen == 2

(***************************************************************************)
(* Python values.                                                          *)
(***************************************************************************)
\* Python's None where a string could stand (a subject without CN, the
\* return value of the validate_* methods); str(None) is "None".
None == <<"None">>

\* crl: str | None = None
NoCrl == [given |-> FALSE, text |-> <<>>]

CrlArg(text) == [given |-> TRUE, text |-> text]

\* the test "crl is not None" in place of "crl"
Truthy_not_none(crl) == crl.given

\* Python truthiness of the crl argument: None and "" are falsy.
Truthy(crl) == crl.given /\ crl.text # <<>>

(***************************************************************************)
(* The universe of certificates.  A certificate is its subject name, its   *)
(* subject CN (a string, as a sequence of characters), its issuer name,    *)
(* the key that signed it, its serial number, its validity period and its  *)
(* public key.                                                             *)
(***************************************************************************)
Far == MaxTime + 1

Cert(subject, cn, issuer, signedBy, serial, notBefore, notAfter, key) ==
    [subject |-> subject, cn |-> cn, issuer |-> issuer, signedBy |-> signedBy,
     serial |-> serial, notBefore |-> notBefore, notAfter |-> notAfter, key |-> key]

rootCA     == Cert("root",  <<"N", "N">>, "root",  "k0", 1, 0, Far, "k0")
interCA    == Cert("inter", <<"N", "n">>, "root",  "k0", 2, 0, Far, "k1")
leafNews   == Cert("news",  <<"n">>,      "root",  "k0", 3, 0, Far, "k0")
leafSlash  == Cert("slash", <<"/", "n">>, "inter", "k1", 4, 0, Far, "k1")
leafShort  == Cert("short", <<"N">>,      "root",  "k0", 5, 0, 0,   "k1")
leafLate   == Cert("late",  <<"n", "/">>, "root",  "k0", 6, 1, Far, "k0")
leafForged == Cert("forged", <<"n">>,     "root",  "k1", 3, 0, Far, "k1")
leafEvil   == Cert("evil",  <<"N">>,      "mallory", "k1", 3, 0, Far, "k0")
selfSigned == Cert("self",  <<"n", "n">>, "self",  "k1", 7, 0, Far, "k1")
leafNoCN   == Cert("nocn",  None,         "root",  "k0", 8, 0, Far, "unsup")

Certs == {rootCA, interCA, leafNews, leafSlash, leafShort, leafLate,
          leafForged, leafEvil, selfSigned, leafNoCN}

\* no certificate (a local not assigned yet)
NoCert == [subject |-> ""]

(***************************************************************************)
(* Revocation lists: issuer name, signing key, revoked serials, nextUpdate *)
(***************************************************************************)
Crl(issuer, signedBy, revoked, nextUpdate) ==
    [issuer |-> issuer, signedBy |-> signedBy, revoked |-> revoked,
     nextUpdate |-> nextUpdate]

rootCrl      == Crl("root",  "k0", {3, 5, 6, 7, 8}, Far)
rootCrlEmpty == Crl("root",  "k0", {},  Far)
rootCrlStale == Crl("root",  "k0", {},  0)
rootCrlBad   == Crl("root",  "k1", {},  Far)
interCrl     == Crl("inter", "k1", {4}, Far)
selfCrl      == Crl("self",  "k1", {7}, Far)
otherCrl     == Crl("mallory", "k1", {3, 4}, Far)

Crls == {rootCrl, rootCrlEmpty, rootCrlStale, rootCrlBad, interCrl, selfCrl, otherCrl}

(***************************************************************************)
(* PEM text.  A text is a sequence of items: a complete PEM block (label,  *)
(* and a body that either decodes to an object or does not), a block cut   *)
(* off before its END line, or text that is not PEM at all.  The empty     *)
(* string is the empty sequence.                                           *)
(***************************************************************************)
CertBlock(c)  == [t |-> "pem", label |-> "CERTIFICATE", ok |-> TRUE, cert |-> c]
CrlBlock(r)   == [t |-> "pem", label |-> "X509 CRL", ok |-> TRUE, crl |-> r]
BadBlock(l)   == [t |-> "pem", label |-> l, ok |-> FALSE]
TruncBlock(l) == [t |-> "trunc", label |-> l, ok |-> FALSE]
Junk          == [t |-> "junk", label |-> "", ok |-> FALSE]

Pem(c) == <<CertBlock(c)>>

\* the malformed texts: empty string, non-PEM text, truncated block, block
\* whose base64 body does not decode
Malformed(l) == {<<>>, <<Junk>>, <<TruncBlock(l)>>, <<BadBlock(l)>>}

CertTexts ==
    {Pem(c) : c \in Certs} \cup Malformed("CERTIFICATE")
      \cup {<<Junk, CrlBlock(rootCrl), CertBlock(leafNews)>>, <<CrlBlock(rootCrl)>>}

ChainTexts ==
    {<<>>, <<Junk>>, <<TruncBlock("CERTIFICATE")>>, <<BadBlock("CERTIFICATE")>>,
     <<CrlBlock(rootCrl)>>,
     Pem(rootCA), Pem(interCA), Pem(selfSigned), Pem(leafNews),
     <<CertBlock(interCA), Junk, CertBlock(rootCA)>>,
     <<CertBlock(rootCA), CertBlock(selfSigned)>>,
     <<CertBlock(rootCA), BadBlock("CERTIFICATE")>>}

CrlArgs ==
    {NoCrl} \cup {CrlArg(x) : x \in Malformed("X509 CRL")}
      \cup {CrlArg(<<CrlBlock(r)>>) : r \in Crls}
      \cup {CrlArg(Pem(rootCA))}

(***************************************************************************)
(* Outcomes.  A call ends by returning a value or by raising; an exception *)
(* is its class and its message.  A formatted message "{a}: {b}" is the    *)
(* tuple of its parts.                                                     *)
(***************************************************************************)
Returned(v) == [kind |-> "ok", msg |-> <<>>, ret |-> v]

Raised(kind, msg) == [kind |-> kind, msg |-> msg, ret |-> None]

\* what a library call gives back: a value, or the exception it raised
Val(v) == [ok |-> TRUE, val |-> v, exc |-> "", err |-> ""]

Exc(class, err) == [ok |-> FALSE, val |-> <<>>, exc |-> class, err |-> err]

\* the raw exception of a library call, as the caller of the validator sees
\* it when nothing catches it
Uncaught(r) == Raised(r.exc, <<r.err>>)

(***************************************************************************)
(* pem.parse and OpenSSL's PEM readers.                                    *)
(***************************************************************************)
\* pem.parse(chain.encode()): the complete PEM blocks of the text, in
\* order, whatever their label and body; anything else is skipped.
pem_parse(text) == SelectSeq(text, LAMBDA it : it.t = "pem")

\* str(ca): the text of one parsed block
BlockText(block) == <<block>>

\* the items of a text that a PEM reader looking for label l stops at
RECURSIVE FirstLabelled(_, _)
FirstLabelled(text, l) ==
    IF text = <<>> THEN <<>>
    ELSE IF Head(text).t # "junk" /\ Head(text).label = l THEN <<Head(text)>>
    ELSE FirstLabelled(Tail(text), l)

\* load_certificate(FILETYPE_PEM, text): the first CERTIFICATE block
load_certificate(text) ==
    LET hit == FirstLabelled(text, "CERTIFICATE") IN
    IF hit = <<>> THEN Exc("OpenSSL.crypto.Error", "no start line")
    ELSE IF hit[1].t = "trunc" THEN Exc("OpenSSL.crypto.Error", "bad end line")
    ELSE IF ~hit[1].ok THEN Exc("OpenSSL.crypto.Error", "bad base64 decode")
    ELSE Val(hit[1].cert)

\* load_crl(FILETYPE_PEM, crl): the first X509 CRL block
load_crl(text) ==
    LET hit == FirstLabelled(text, "X509 CRL") IN
    IF hit = <<>> THEN Exc("OpenSSL.crypto.Error", "no start line")
    ELSE IF hit[1].t = "trunc" THEN Exc("OpenSSL.crypto.Error", "bad end line")
    ELSE IF ~hit[1].ok THEN Exc("OpenSSL.crypto.Error", "bad base64 decode")
    ELSE Val(hit[1].crl)

(***************************************************************************)
(* base64.b64decode(s) = binascii.a2b_base64(s), not strict: characters    *)
(* outside the alphabet are dropped, "=" ends the data once the quad is    *)
(* padded out, and a quad left open at the end is an error.  The alphabet  *)
(* here is "A" (0) and "Q" (16); "!" stands for a character outside it.    *)
(***************************************************************************)
SigChars == {"A", "Q", "=", "!"}

Sextet(ch) == IF ch = "A" THEN 0 ELSE 16

RECURSIVE a2b_base64(_, _, _, _, _)
a2b_base64(s, quad_pos, leftchar, pads, out) ==
    IF s = <<>> THEN
        IF quad_pos = 0 THEN Val(out)
        ELSE IF quad_pos = 1 THEN Exc("binascii.Error", "Invalid base64-encoded string")
        ELSE Exc("binascii.Error", "Incorrect padding")
    ELSE LET ch == Head(s)  rest == Tail(s) IN
      IF ch = "=" THEN
          IF quad_pos >= 2 /\ quad_pos + pads + 1 >= 4 THEN Val(out)
          ELSE a2b_base64(rest, quad_pos, leftchar,
                          IF quad_pos >= 2 THEN pads + 1 ELSE pads, out)
      ELSE IF ch \notin {"A", "Q"} THEN a2b_base64(rest, quad_pos, leftchar, pads, out)
      ELSE LET v == Sextet(ch) IN
        CASE quad_pos = 0 -> a2b_base64(rest, 1, v, 0, out)
          [] quad_pos = 1 ->
               a2b_base64(rest, 2, v % 16, 0, Append(out, leftchar * 4 + v \div 16))
          [] quad_pos = 2 ->
               a2b_base64(rest, 3, v % 4, 0, Append(out, leftchar * 16 + v \div 4))
          [] OTHER ->
               a2b_base64(rest, 0, 0, 0, Append(out, leftchar * 64 + v))

b64decode(s) == a2b_base64(s, 0, 0, 0, <<>>)

SigTexts == UNION {[1..n -> SigChars] : n \in 0..MaxSigLen}

(***************************************************************************)
(* Signatures.  The data are two bits; a digest is a one-to-one map of the *)
(* data; a signature is two bytes fixed by the key and the digest value.   *)
(***************************************************************************)
Datas == [1..2 -> {0, 1}]

SupportedDigests == {"sha512", "sha1"}

Hash(alg, data) == IF alg = "sha512" THEN <<data[2], 1 - data[1]>> ELSE data

KeyBit(key) == IF key = "k1" THEN 1 ELSE 0

\* the signature the holder of `key` makes over `data`
Sign(key, alg, data) ==
    LET h == Hash(alg, data) IN <<64 * KeyBit(key) + h[1], 4 * h[2]>>

\* its base64 text
Base64Of(sig) ==
    <<IF sig[1] >= 64 THEN "Q" ELSE "A", IF sig[1] % 2 = 1 THEN "Q" ELSE "A",
      IF sig[2] = 4 THEN "Q" ELSE "A", "=">>

\* OpenSSL.crypto.verify(cert, signature, data, digest)
verify(cert, signature, data, alg) ==
    IF alg \notin SupportedDigests THEN Exc("ValueError", "No such digest method")
    ELSE IF cert.key \notin {"k0", "k1"} THEN Exc("OpenSSL.crypto.Error", "unsupported key type")
    ELSE IF signature # Sign(cert.key, alg, data) THEN Exc("OpenSSL.crypto.Error", "bad signature")
    ELSE Val(None)

(***************************************************************************)
(* X509Store and X509StoreContext.verify_certificate (X509_verify_cert     *)
(* with the default flags): every certificate of the store is trusted, a   *)
(* path must end at a self-signed certificate of the store, the leaf is    *)
(* checked against a CRL only under the CRL_CHECK flag, and signatures and *)
(* validity periods are checked from the root down.                        *)
(***************************************************************************)
\* a store that starts with a default root loaded
X509Store_with_default_root == [certs |-> {rootCA}, crls |-> {}, flags |-> {}]

X509Store == [certs |-> {}, crls |-> {}, flags |-> {}]

add_cert(store, cert) == [store EXCEPT !.certs = @ \cup {cert}]

set_flags(store, flag) == [store EXCEPT !.flags = @ \cup {flag}]

add_crl(store, crl) == [store EXCEPT !.crls = @ \cup {crl}]

\* build_chain: from the leaf up, each issuer looked up in the store by name
RECURSIVE build_chain(_, _, _)
build_chain(store, chain, depth) ==
    LET cur == chain[Len(chain)]
        issuers == {c \in store.certs : c.subject = cur.issuer}
    IN  IF cur.issuer = cur.subject THEN
            IF cur \in store.certs THEN Val(chain)
            ELSE Exc("X509StoreContextError", "self-signed certificate")
        ELSE IF issuers = {} THEN
            Exc("X509StoreContextError",
                IF depth = 0 THEN "unable to get local issuer certificate"
                ELSE "unable to get issuer certificate")
        ELSE IF depth > Cardinality(store.certs) THEN
            Exc("X509StoreContextError", "certificate chain too long")
        ELSE build_chain(store, Append(chain, CHOOSE c \in issuers : TRUE), depth + 1)

\* check_revocation under CRL_CHECK: the leaf, against the CRL of its issuer
check_revocation(store, chain, t) ==
    LET leaf == chain[1]
        issuer == chain[IF Len(chain) > 1 THEN 2 ELSE 1]
        crls == {r \in store.crls : r.issuer = leaf.issuer}
    IN  IF "CRL_CHECK" \notin store.flags THEN Val(None)
        ELSE IF crls = {} THEN Exc("X509StoreContextError", "unable to get certificate CRL")
        ELSE LET r == CHOOSE x \in crls : TRUE IN
          IF r.nextUpdate < t THEN Exc("X509StoreContextError", "CRL has expired")
          ELSE IF r.signedBy # issuer.key THEN Exc("X509StoreContextError", "CRL signature failure")
          ELSE IF leaf.serial \in r.revoked THEN Exc("X509StoreContextError", "certificate revoked")
          ELSE Val(None)

\* internal_verify: from the root (i = Len(chain)) down to the leaf (i = 1)
RECURSIVE internal_verify(_, _, _)
internal_verify(chain, i, t) ==
    IF i = 0 THEN Val(None)
    ELSE IF i < Len(chain) /\ chain[i].signedBy # chain[i + 1].key THEN
        Exc("X509StoreContextError", "certificate signature failure")
    ELSE IF chain[i].notBefore > t THEN
        Exc("X509StoreContextError", "certificate is not yet valid")
    ELSE IF chain[i].notAfter < t THEN
        Exc("X509StoreContextError", "certificate has expired")
    ELSE internal_verify(chain, i - 1, t)

\* X509StoreContext(store, cert).verify_certificate() at clock time t
verify_certificate(store, cert, t) ==
    LET built == build_chain(store, <<cert>>, 0) IN
    IF ~built.ok THEN built
    ELSE LET rev == check_revocation(store, built.val, t) IN
      IF ~rev.ok THEN rev
      ELSE internal_verify(built.val, Len(built.val), t)

(***************************************************************************)
(* CertificateValidator.                                                   *)
(***************************************************************************)
\* an exception of the validator's own classes, on its way to the caller
Propagate(r) == Raised(r.exc, r.err)

\* _to_cert, lines 128-133
_to_cert(certificate) ==
    LET r == load_certificate(certificate) IN
    IF r.ok THEN r
    ELSE Exc("InvalidCertificate", <<"Invalid certificate", r.err>>)

\* validate_signature with b64decode before the try block
validate_signature_decode_outside_try(certificate, signature, data, alg) ==
    LET cert == _to_cert(certificate) IN
    IF ~cert.ok THEN Propagate(cert)
    ELSE LET raw == b64decode(signature) IN
      IF ~raw.ok THEN Uncaught(raw)
      ELSE LET v == verify(cert.val, raw.val, data, alg) IN
        IF ~v.ok THEN Raised("InvalidSignature", <<"Signature is invalid", v.err>>)
        ELSE Returned(None)

\* validate_signature that also wants the certificate issued by a known CA
\* and not past its notAfter date
validate_signature_trusted_only(certificate, signature, data, alg) ==
    LET cert == _to_cert(certificate) IN
    IF ~cert.ok THEN Propagate(cert)
    ELSE IF cert.val.issuer \notin {"root", "inter"} \/ cert.val.notAfter < Far THEN
        Raised("InvalidSignature", <<"Signature is invalid", "certificate verify failed">>)
    ELSE LET raw == b64decode(signature) IN
      IF ~raw.ok THEN Raised("InvalidSignature", <<"Signature is invalid", raw.err>>)
      ELSE LET v == verify(cert.val, raw.val, data, alg) IN
        IF ~v.ok THEN Raised("InvalidSignature", <<"Signature is invalid", v.err>>)
        ELSE Returned(None)

\* validate_signature, lines 62-67
validate_signature(certificate, signature, data, alg) ==
    LET cert == _to_cert(certificate) IN
    IF ~cert.ok THEN Propagate(cert)
    ELSE LET raw == b64decode(signature) IN
      IF ~raw.ok THEN Raised("InvalidSignature", <<"Signature is invalid", raw.err>>)
      ELSE LET v == verify(cert.val, raw.val, data, alg) IN
        IF ~v.ok THEN Raised("InvalidSignature", <<"Signature is invalid", v.err>>)
        ELSE Returned(None)

\* the loop of lines 82-83 over the blocks pem.parse returned
RECURSIVE AddCas(_, _)
AddCas(store, cas) ==
    IF cas = <<>> THEN Val(store)
    ELSE LET ca == _to_cert(BlockText(Head(cas))) IN
      IF ~ca.ok THEN ca
      ELSE AddCas(add_cert(store, ca.val), Tail(cas))

\* lines 87-90 without store.set_flags(X509StoreFlags.CRL_CHECK)
AttachCrl_no_flag(store, crl) ==
    IF Truthy(crl) THEN
        LET parsed_crl == load_crl(crl.text) IN
        IF ~parsed_crl.ok THEN parsed_crl
        ELSE Val(add_crl(store, parsed_crl.val))
    ELSE Val(store)

\* lines 87-90: the CRL, when the argument is truthy
AttachCrl(store, crl) ==
    IF Truthy(crl) THEN
        LET parsed_crl == load_crl(crl.text) IN
        IF ~parsed_crl.ok THEN parsed_crl
        ELSE Val(add_crl(set_flags(store, "CRL_CHECK"), parsed_crl.val))
    ELSE Val(store)

\* validate_certificate up to the store context, lines 80-92: the store and
\* the leaf, or the exception that ended the call
StoreContext(certificate, chain, crl) ==
    LET anchors == AddCas(X509Store, pem_parse(chain)) IN
    IF ~anchors.ok THEN [ok |-> FALSE, store |-> X509Store, cert |-> NoCert,
                         result |-> Propagate(anchors)]
    ELSE LET cert == _to_cert(certificate) IN
      IF ~cert.ok THEN [ok |-> FALSE, store |-> anchors.val, cert |-> NoCert,
                        result |-> Propagate(cert)]
      ELSE LET withCrl == AttachCrl(anchors.val, crl) IN
        IF ~withCrl.ok THEN [ok |-> FALSE, store |-> anchors.val, cert |-> cert.val,
                             result |-> Uncaught(withCrl)]
        ELSE [ok |-> TRUE, store |-> withCrl.val, cert |-> cert.val,
              result |-> Returned(None)]

\* validate_certificate from the store context on, lines 93-98
VerifyContext(store, cert, t) ==
    LET v == verify_certificate(store, cert, t) IN
    IF ~v.ok THEN Raised("InvalidCertificate", <<"Certificate is invalid", v.err>>)
    ELSE Returned(None)

\* validate_certificate as a whole, lines 69-98, with path validation at
\* clock time t
validate_certificate(certificate, chain, crl, t) ==
    LET ctx == StoreContext(certificate, chain, crl) IN
    IF ctx.ok THEN VerifyContext(ctx.store, ctx.cert, t) ELSE ctx.result

\* get_cn as its docstring describes it: the leading slash removed
get_cn_stripped(certificate) ==
    LET cert == _to_cert(certificate) IN
    IF ~cert.ok THEN Propagate(cert)
    ELSE Returned(IF cert.val.cn # <<>> /\ Head(cert.val.cn) = "/"
                  THEN Tail(cert.val.cn) ELSE cert.val.cn)

\* get_cn, lines 107-108
get_cn(certificate) ==
    LET cert == _to_cert(certificate) IN
    IF ~cert.ok THEN Propagate(cert) ELSE Returned(cert.val.cn)

\* validate_app_id without the master certificate bypass
validate_app_id_no_master(certificate, app_id, masters) ==
    LET cn == get_cn(certificate) IN
    IF cn.kind # "ok" THEN cn
    ELSE IF cn.ret = app_id THEN Returned(None)
    ELSE Raised("CertificateAppIdMismatch",
                <<"App id", app_id, "does not match cert CN", cn.ret>>)

\* validate_app_id, lines 119-126
validate_app_id(certificate, app_id, masters) ==
    LET cn == get_cn(certificate) IN
    IF cn.kind # "ok" THEN cn
    ELSE IF cn.ret = app_id THEN Returned(None)
    ELSE IF cn.ret \in masters THEN Returned(None)
    ELSE Raised("CertificateAppIdMismatch",
                <<"App id", app_id, "does not match cert CN", cn.ret>>)

(***************************************************************************)
(* Configuration: settings.CERTIFICATE_DIGEST, read by                     *)
(* CertificateConfiguration.__init__ (line 28), and                        *)
(* settings.MASTER_CERTIFICATE_CNS, read at line 120 (absent: []).         *)
(***************************************************************************)
Settings ==
    {[CERTIFICATE_DIGEST |-> "sha512", MASTER_CERTIFICATE_CNS |-> {}],
     [CERTIFICATE_DIGEST |-> "sha1",   MASTER_CERTIFICATE_CNS |-> {<<"N">>}],
     [CERTIFICATE_DIGEST |-> "nosuch", MASTER_CERTIFICATE_CNS |-> {<<"N", "N">>, <<"/", "n">>}]}

IdChars == {"/", "n", "N"}

AppIds == UNION {[1..n -> IdChars] : n \in 0..MaxIdLen}

(***************************************************************************)
(* The callers.  Each thread is idle or inside one call; th[t] holds the   *)
(* call's arguments and locals, its position (pc), the clock time path     *)
(* validation read (at) and, once the call has ended, its outcome.         *)
(***************************************************************************)
Threads == {"t1", "t2"}

Main == "t1"

Idle == [pc |-> "idle", op |-> "none"]

\* the call as a caller sees it: what was called with what
CallOf(c) ==
    CASE c.op = "validate_signature" ->
           [op |-> c.op, certificate |-> c.certificate, signature |-> c.signature,
            data |-> c.data]
      [] c.op = "validate_certificate" ->
           [op |-> c.op, certificate |-> c.certificate, chain |-> c.chain, crl |-> c.crl]
      [] c.op = "get_cn" -> [op |-> c.op, certificate |-> c.certificate]
      [] c.op = "validate_app_id" ->
           [op |-> c.op, certificate |-> c.certificate, app_id |-> c.app_id]

NoMemo == [set |-> FALSE]

Init ==
    /\ \E s \in Settings :
         /\ digest = s.CERTIFICATE_DIGEST
         /\ master_cns = s.MASTER_CERTIFICATE_CNS
         /\ startup = s
    /\ now = 0
    /\ th = [t \in Threads |-> Idle]
    /\ memo = NoMemo

\* validate_signature(certificate, signature, data)
ValidateSignature(t, certificates, signatures, datas) ==
    /\ th[t].pc = "idle"
    /\ \E certificate \in certificates, signature \in signatures, data \in datas :
         th' = [th EXCEPT ![t] =
                  [pc |-> "done", op |-> "validate_signature",
                   certificate |-> certificate, signature |-> signature, data |-> data,
                   at |-> now,
                   result |-> validate_signature(certificate, signature, data, digest)]]
    /\ UNCHANGED <<digest, master_cns, startup, now, memo>>

\* validate_certificate(certificate, chain, crl), lines 80-92: the trust
\* store is built, the leaf parsed and the CRL attached
BuildStore(t, certificates, chains, crls) ==
    /\ th[t].pc = "idle"
    /\ \E certificate \in certificates, chain \in chains, crl \in crls :
         LET ctx == StoreContext(certificate, chain, crl) IN
         th' = [th EXCEPT ![t] =
                  [pc |-> IF ctx.ok THEN "ctx" ELSE "done", op |-> "validate_certificate",
                   certificate |-> certificate, chain |-> chain, crl |-> crl,
                   store |-> ctx.store, cert |-> ctx.cert, stage |-> "build",
                   at |-> now, result |-> ctx.result]]
    /\ UNCHANGED <<digest, master_cns, startup, now, memo>>

\* validate_certificate, lines 93-98: path validation at the current time
VerifyCertificate(t) ==
    /\ th[t].pc = "ctx"
    /\ th' = [th EXCEPT ![t].pc = "done", ![t].stage = "verify", ![t].at = now,
                        ![t].result = VerifyContext(th[t].store, th[t].cert, now)]
    /\ UNCHANGED <<digest, master_cns, startup, now, memo>>

\* get_cn(certificate)
GetCn(t, certificates) ==
    /\ th[t].pc = "idle"
    /\ \E certificate \in certificates :
         th' = [th EXCEPT ![t] =
                  [pc |-> "done", op |-> "get_cn", certificate |-> certificate,
                   at |-> now, result |-> get_cn(certificate)]]
    /\ UNCHANGED <<digest, master_cns, startup, now, memo>>

\* validate_app_id that remembers each CN it has seen as a master CN
ValidateAppId_caching(t, certificates, app_ids) ==
    /\ th[t].pc = "idle"
    /\ \E certificate \in certificates, app_id \in app_ids :
         /\ th' = [th EXCEPT ![t] =
                     [pc |-> "done", op |-> "validate_app_id", certificate |-> certificate,
                      app_id |-> app_id, at |-> now,
                      result |-> validate_app_id(certificate, app_id, master_cns)]]
         /\ master_cns' = IF load_certificate(certificate).ok
                          THEN master_cns \cup {load_certificate(certificate).val.cn}
                          ELSE master_cns
    /\ UNCHANGED <<digest, startup, now, memo>>

\* validate_app_id(certificate, app_id)
ValidateAppId(t, certificates, app_ids) ==
    /\ th[t].pc = "idle"
    /\ \E certificate \in certificates, app_id \in app_ids :
         th' = [th EXCEPT ![t] =
                  [pc |-> "done", op |-> "validate_app_id", certificate |-> certificate,
                   app_id |-> app_id, at |-> now,
                   result |-> validate_app_id(certificate, app_id, master_cns)]]
    /\ UNCHANGED <<digest, master_cns, startup, now, memo>>

\* the call returns (or its exception reaches the caller); its locals are
\* gone.  An observer may keep the first call it chooses to remember.
Return(t, observers) ==
    /\ th[t].pc = "done"
    /\ th' = [th EXCEPT ![t] = Idle]
    /\ \E remember \in observers :
         memo' = IF remember /\ ~memo.set
                 THEN [set |-> TRUE, call |-> CallOf(th[t]), at |-> th[t].at,
                       result |-> th[t].result]
                 ELSE memo
    /\ UNCHANGED <<digest, master_cns, startup, now>>

\* the clock moves on
Tick ==
    /\ now < MaxTime
    /\ now' = now + 1
    /\ UNCHANGED <<digest, master_cns, startup, th, memo>>

(***************************************************************************)
(* Spec: one caller, every input of the universe.                          *)
(***************************************************************************)
Next ==
    \/ ValidateSignature(Main, CertTexts, SigTexts, Datas)
    \/ BuildStore(Main, CertTexts, ChainTexts, CrlArgs)
    \/ VerifyCertificate(Main)
    \/ GetCn(Main, CertTexts)
    \/ ValidateAppId(Main, CertTexts, AppIds)
    \/ Return(Main, {FALSE})
    \/ Tick

Spec == Init /\ [][Next]_vars

(***************************************************************************)
(* SpecConc: two callers whose calls interleave, over a few inputs, and an *)
(* observer that remembers one finished call.                              *)
(***************************************************************************)
FewCertTexts == {Pem(leafNews), Pem(leafShort)}

FewChainTexts == {<<>>, Pem(rootCA)}

FewCrlArgs == {NoCrl, CrlArg(<<CrlBlock(rootCrl)>>)}

FewSigTexts == {Base64Of(Sign("k0", "sha512", <<0, 1>>))}

FewDatas == {<<0, 1>>}

FewAppIds == {<<"n">>}

NextConc ==
    \/ \E t \in Threads :
         \/ ValidateSignature(t, FewCertTexts, FewSigTexts, FewDatas)
         \/ BuildStore(t, FewCertTexts, FewChainTexts, FewCrlArgs)
         \/ VerifyCertificate(t)
         \/ GetCn(t, FewCertTexts)
         \/ ValidateAppId(t, FewCertTexts, FewAppIds)
         \/ Return(t, BOOLEAN)
    \/ Tick

SpecConc == Init /\ [][NextConc]_vars

(***************************************************************************)
(* Properties.                                                             *)
(***************************************************************************)
\* thread t has ended a call of op
Ended(t, op) == th[t].pc = "done" /\ th[t].op = op

\* the certificate text parses
Parseable(text) == load_certificate(text).ok

\* the certificate a parseable text holds
Parsed(text) == load_certificate(text).val

\* C1: for every parseable certificate with subject CN cn, every expected id
\* and every master allowlist, validate_app_id returns iff cn equals the
\* expected id exactly or cn is on the allowlist, and otherwise raises
\* CertificateAppIdMismatch "App id <expected_id> does not match cert CN <cn>".
C1_AppIdMatch ==
    \A t \in Threads :
      Ended(t, "validate_app_id") /\ Parseable(th[t].certificate) =>
        LET cn == Parsed(th[t].certificate).cn IN
        IF cn = th[t].app_id \/ cn \in master_cns
        THEN th[t].result = Returned(None)
        ELSE th[t].result =
               Raised("CertificateAppIdMismatch",
                      <<"App id", th[t].app_id, "does not match cert CN", cn>>)

\* C1 witness: a certificate whose CN is on the allowlist has passed for an
\* app id that differs from its CN.
C1_Witness ==
    \E t \in Threads :
      /\ Ended(t, "validate_app_id") /\ Parseable(th[t].certificate)
      /\ Parsed(th[t].certificate).cn \in master_cns
      /\ Parsed(th[t].certificate).cn # th[t].app_id
      /\ th[t].result.kind = "ok"

WellFormedBundle(chain) ==
    \A i \in 1..Len(chain) :
      chain[i].t = "pem" => chain[i].label = "CERTIFICATE" /\ chain[i].ok

\* the certificates of a bundle
Anchors(chain) ==
    {chain[i].cert : i \in {j \in 1..Len(chain) :
                              chain[j].t = "pem" /\ chain[j].label = "CERTIFICATE"
                                /\ chain[j].ok}}

InPeriod(c, t) == c.notBefore <= t /\ t <= c.notAfter

\* c chains to a self-signed anchor through at most n anchors, each link
\* signed by its issuer's key and every certificate on the way in its
\* validity period at time t
RECURSIVE ChainsTo(_, _, _, _)
ChainsTo(c, anchors, t, n) ==
    /\ InPeriod(c, t)
    /\ IF c.subject = c.issuer THEN c \in anchors
       ELSE /\ n > 0
            /\ \E a \in anchors :
                 a.subject = c.issuer /\ c.signedBy = a.key /\ ChainsTo(a, anchors, t, n - 1)

\* the call of thread t is a validate_certificate of a leaf that chains to
\* an anchor of a well-formed bundle and is in its validity period
GoodLeaf(t) ==
    /\ Ended(t, "validate_certificate")
    /\ Parseable(th[t].certificate)
    /\ WellFormedBundle(th[t].chain)
    /\ ChainsTo(Parsed(th[t].certificate), Anchors(th[t].chain), th[t].at,
                Cardinality(Anchors(th[t].chain)))

\* the CRL argument of thread t's call is a CRL that lists the leaf's serial
ListedInCrl(t) ==
    /\ Truthy(th[t].crl)
    /\ load_crl(th[t].crl.text).ok
    /\ Parsed(th[t].certificate).serial \in load_crl(th[t].crl.text).val.revoked

\* C2: for every leaf that chains to an anchor of the bundle, is within its
\* validity period and whose serial number a CRL lists, validate_certificate
\* with that CRL raises InvalidCertificate and validate_certificate with no
\* CRL argument returns; the store checks revocation only when a CRL was
\* supplied.
C2_RevocationOptIn ==
    \A t \in Threads :
      /\ GoodLeaf(t) /\ ListedInCrl(t) => th[t].result.kind = "InvalidCertificate"
      /\ GoodLeaf(t) /\ ~th[t].crl.given => th[t].result = Returned(None)
      /\ th[t].op = "validate_certificate" /\ "CRL_CHECK" \in th[t].store.flags =>
           th[t].crl.given /\ th[t].store.crls # {}

\* C2 witness: a leaf that chains to the bundle's root and is in its
\* validity period has been rejected as revoked by the CRL of its issuer.
C2_Witness ==
    \E t \in Threads :
      /\ GoodLeaf(t) /\ ListedInCrl(t)
      /\ th[t].result =
           Raised("InvalidCertificate", <<"Certificate is invalid", "certificate revoked">>)

\* C3: every failure of validate_certificate over a parseable leaf and a
\* well-formed bundle (an untrustworthy chain, an expired certificate, a
\* revoked certificate, an unparsable CRL) is an InvalidCertificate whose
\* message begins with "Certificate is invalid".
C3_SingleFailureKind ==
    \A t \in Threads :
      /\ Ended(t, "validate_certificate")
      /\ Parseable(th[t].certificate) /\ WellFormedBundle(th[t].chain)
      /\ th[t].result.kind # "ok"
      => /\ th[t].result.kind = "InvalidCertificate"
         /\ th[t].result.msg[1] = "Certificate is invalid"

\* C10: a CRL argument that is the empty string is treated as no CRL: it is
\* not parsed, the store gets no CRL and no CRL_CHECK flag, and the outcome
\* is that of the same call without a CRL.
C10_EmptyCrlIsNoCrl ==
    \A t \in Threads :
      th[t].op = "validate_certificate" /\ th[t].crl = CrlArg(<<>>) =>
        /\ "CRL_CHECK" \notin th[t].store.flags
        /\ th[t].store.crls = {}
        /\ th[t].pc = "done" =>
             /\ th[t].result.kind \in {"ok", "InvalidCertificate"}
             /\ th[t].result =
                  validate_certificate(th[t].certificate, th[t].chain, NoCrl, th[t].at)

\* C10 witness: a leaf that chains to the bundle's root has been accepted
\* with the empty string as CRL.
C10_Witness ==
    \E t \in Threads :
      /\ GoodLeaf(t) /\ th[t].crl = CrlArg(<<>>)
      /\ th[t].stage = "verify" /\ th[t].result = Returned(None)

\* C4 as stated: every failing outcome of validate_signature, for every
\* certificate text, signature text and data, is an InvalidSignature whose
\* message begins with "Signature is invalid".
C4_AlwaysInvalidSignature ==
    \A t \in Threads :
      Ended(t, "validate_signature") /\ th[t].result.kind # "ok" =>
        /\ th[t].result.kind = "InvalidSignature"
        /\ th[t].result.msg[1] = "Signature is invalid"

\* C4 amended: over a certificate text that parses, every failing outcome
\* of validate_signature is InvalidSignature "Signature is invalid: <cause>"
\* (a base64 text that does not decode, a signature that does not match, an
\* unsupported key or digest), and a base64 text that does not decode is
\* reported with the decoder's cause, never as the decoder's own exception;
\* over a certificate text that does not parse the outcome is
\* InvalidCertificate "Invalid certificate: <cause>".
C4_InvalidSignature ==
    \A t \in Threads :
      Ended(t, "validate_signature") =>
        LET r == th[t].result
            raw == b64decode(th[t].signature)
        IN  /\ Parseable(th[t].certificate) /\ r.kind # "ok" =>
                 r.kind = "InvalidSignature" /\ r.msg[1] = "Signature is invalid"
            /\ Parseable(th[t].certificate) /\ ~raw.ok =>
                 r = Raised("InvalidSignature", <<"Signature is invalid", raw.err>>)
            /\ Parseable(th[t].certificate) /\ raw.ok
                 /\ (Parsed(th[t].certificate).key = "unsup" \/ digest \notin SupportedDigests) =>
                 r.kind = "InvalidSignature"
            /\ ~Parseable(th[t].certificate) =>
                 r = Raised("InvalidCertificate",
                            <<"Invalid certificate", load_certificate(th[t].certificate).err>>)

\* C4 witness: a signature text with broken padding, over a certificate
\* that parses, has been reported as InvalidSignature.
C4_Witness ==
    \E t \in Threads :
      /\ Ended(t, "validate_signature") /\ Parseable(th[t].certificate)
      /\ ~b64decode(th[t].signature).ok
      /\ th[t].result =
           Raised("InvalidSignature", <<"Signature is invalid", "Incorrect padding">>)

\* the data with bit i flipped
FlipBit(data, i) == [data EXCEPT ![i] = 1 - data[i]]

\* C5: the outcome of validate_signature depends only on the certificate's
\* public key, the signature, the data and the configured digest: any other
\* certificate with the same key, whatever its issuer, validity period or
\* serial, gives the same outcome; the signature made with the certificate's
\* key over the data verifies, and the signature made over the data with one
\* bit flipped raises InvalidSignature.
C5_KeyOnly ==
    \A t \in Threads :
      Ended(t, "validate_signature") /\ Parseable(th[t].certificate) =>
        LET cert == Parsed(th[t].certificate)
            r == th[t].result
        IN  /\ \A other \in Certs :
                 other.key = cert.key =>
                   validate_signature(Pem(other), th[t].signature, th[t].data, digest) = r
            /\ cert.key # "unsup" /\ digest \in SupportedDigests
                 /\ th[t].signature = Base64Of(Sign(cert.key, digest, th[t].data)) =>
                 r = Returned(None)
            /\ \A i \in 1..2 :
                 th[t].signature = Base64Of(Sign(cert.key, digest, FlipBit(th[t].data, i))) =>
                   r.kind = "InvalidSignature"

\* C5 witness: a signature has verified against a certificate that is past
\* its notAfter date.
C5_Witness ==
    \E t \in Threads :
      /\ Ended(t, "validate_signature") /\ Parseable(th[t].certificate)
      /\ th[t].result = Returned(None)
      /\ Parsed(th[t].certificate).notAfter < th[t].at

\* the bundle holds no complete PEM block at all
NoPemBlock(chain) == \A i \in 1..Len(chain) : chain[i].t # "pem"

\* C6 as stated, for calls without a CRL: a bundle with zero valid
\* certificate blocks is no error while the store is built; the store is
\* empty and the leaf is rejected at path validation with InvalidCertificate.
C6_ZeroValidBlocks ==
    \A t \in Threads :
      /\ Ended(t, "validate_certificate") /\ Parseable(th[t].certificate)
      /\ ~th[t].crl.given /\ Anchors(th[t].chain) = {}
      => /\ th[t].stage = "verify"
         /\ th[t].store.certs = {}
         /\ th[t].result.kind = "InvalidCertificate"
         /\ th[t].result.msg[1] = "Certificate is invalid"

\* C6 amended: a bundle in which no PEM block is found (the empty string,
\* text that is not PEM) is no error while the store is built: the store is
\* empty, a call without a CRL goes on to path validation, no leaf is ever
\* accepted, and every call that reaches path validation is rejected there
\* with InvalidCertificate "Certificate is invalid: <cause>".  A bundle that
\* holds PEM blocks none of which loads as a certificate ends the call while
\* the store is built, with InvalidCertificate "Invalid certificate: <cause>".
C6_EmptyBundle ==
    \A t \in Threads :
      th[t].op = "validate_certificate" /\ Parseable(th[t].certificate) =>
        /\ NoPemBlock(th[t].chain) =>
             /\ th[t].store.certs = {}
             /\ ~Truthy(th[t].crl) => th[t].stage = "verify" \/ th[t].pc = "ctx"
             /\ th[t].pc = "done" =>
                  /\ th[t].result.kind # "ok"
                  /\ th[t].stage = "verify" =>
                       /\ th[t].result.kind = "InvalidCertificate"
                       /\ th[t].result.msg[1] = "Certificate is invalid"
        /\ Anchors(th[t].chain) = {} /\ ~NoPemBlock(th[t].chain) =>
             /\ th[t].pc = "done" /\ th[t].stage = "build"
             /\ th[t].result.kind = "InvalidCertificate"
             /\ th[t].result.msg[1] = "Invalid certificate"

\* C6 witness: a self-signed leaf has been rejected at path validation
\* against a bundle that is the empty string.
C6_Witness ==
    \E t \in Threads :
      /\ Ended(t, "validate_certificate") /\ th[t].certificate = Pem(selfSigned)
      /\ th[t].chain = <<>> /\ th[t].stage = "verify"
      /\ th[t].result.kind = "InvalidCertificate"

\* C8: a malformed text input (the empty string, text that is not PEM, a
\* truncated block, a body that does not decode; for a signature the empty
\* string or base64 that does not decode) makes the call end in
\* InvalidCertificate (certificate, chain, CRL) or InvalidSignature
\* (signature), never in another exception.
C8_MalformedInput ==
    \A t \in Threads :
      th[t].pc = "done" =>
        /\ th[t].certificate \in Malformed("CERTIFICATE") =>
             th[t].result.kind = "InvalidCertificate"
        /\ th[t].op = "validate_certificate" /\ th[t].chain \in Malformed("CERTIFICATE") =>
             th[t].result.kind = "InvalidCertificate"
        /\ th[t].op = "validate_certificate" /\ th[t].crl.given
             /\ th[t].crl.text \in Malformed("X509 CRL") =>
             th[t].result.kind = "InvalidCertificate"
        /\ th[t].op = "validate_signature" /\ Parseable(th[t].certificate)
             /\ (th[t].signature = <<>> \/ ~b64decode(th[t].signature).ok) =>
             th[t].result.kind = "InvalidSignature"

\* the configuration is what it was at startup
ConfigFixed ==
    /\ digest = startup.CERTIFICATE_DIGEST
    /\ master_cns = startup.MASTER_CERTIFICATE_CNS

\* the store of every validate_certificate in progress holds the anchors
\* and the CRL of that call's own arguments and nothing else
OwnStore ==
    \A t \in Threads :
      th[t].op = "validate_certificate" /\ WellFormedBundle(th[t].chain) =>
        /\ th[t].store.certs = Anchors(th[t].chain)
        /\ th[t].store.crls \subseteq
             {x.crl : x \in {y \in {th[t].crl.text[i] : i \in 1..Len(th[t].crl.text)} :
                               y.t = "pem" /\ y.label = "X509 CRL" /\ y.ok}}

\* C9 as stated: the configuration is fixed at startup, every call builds
\* its own store, and a call with given arguments has the same outcome
\* wherever it occurs among the calls of all threads.
C9_SameOutcomeAnywhere ==
    /\ ConfigFixed
    /\ OwnStore
    /\ \A t \in Threads :
         th[t].pc = "done" /\ memo.set /\ CallOf(th[t]) = memo.call =>
           th[t].result = memo.result

\* C9 amended: the configuration is fixed at startup, every call builds its
\* own store, and a call with given arguments has the same outcome wherever
\* it occurs among the calls of all threads, provided that, for
\* validate_certificate, path validation reads the same clock time (the
\* validity periods and the CRL's nextUpdate are checked against the
\* current time).
C9_Stateless ==
    /\ ConfigFixed
    /\ OwnStore
    /\ \A t \in Threads :
         /\ th[t].pc = "done" /\ memo.set /\ CallOf(th[t]) = memo.call
         /\ th[t].op = "validate_certificate" => th[t].at = memo.at
         => th[t].result = memo.result

\* C9 witness: a validate_certificate has ended like the remembered call
\* with the same arguments, while the other thread is in the middle of a
\* validate_certificate of its own with another bundle.
C9_Witness ==
    \E t \in Threads, u \in Threads :
      /\ t # u
      /\ Ended(t, "validate_certificate") /\ memo.set /\ CallOf(th[t]) = memo.call
      /\ th[t].stage = "verify" /\ th[t].result = memo.result
      /\ th[u].pc = "ctx" /\ th[u].chain # th[t].chain

====
